---- MODULE Spec2Model ----
(***************************************************************************)
(* Quota ledger, daily reconciliation, check-in, two-lane upload queue,    *)
(* gallery tools and storage failures of the Lumina gallery                *)
(* (src/unnamed/part_003).                                                 *)
(*                                                                         *)
(* Units.  Byte quantities are counted in MiB (an item's size is the       *)
(* length of its data URL, taken in whole MiB), timestamps in hours since  *)
(* the epoch in a time zone without daylight saving.  Timer delays keep    *)
(* the millisecond values of the source.                                   *)
(*                                                                         *)
(* An absent optional field of a user record (lastCheckIn, checkInStreak,  *)
(* bonusStorage) is the value 0: the source reads every one of them        *)
(* through `|| 0` or a falsiness test, so absent and 0 behave alike.       *)
(***************************************************************************)
EXTENDS Integers, Sequences, FiniteSets, TLC

\* ------------------------------------------------------------------------
\* Program constants
\* ------------------------------------------------------------------------
BASE_STORAGE_BYTES == 2560
BONUS_PER_CHECKIN == 5
PENALTY_PER_MISS == 75
INITIAL_QUEUE_DELAY == 120000
SEQUENTIAL_DELAY == 2000
ONE_DAY == 24
IMMEDIATE_COUNT == 2
QUEUE_COUNTDOWN == 120

\* ------------------------------------------------------------------------
\* Bounds of the model
\* ------------------------------------------------------------------------
MaxFiles == 4
MaxBatches == 2
MaxTotalFiles == 4
MaxDay == 4

\* seconds of countdown taken in one step
TickSteps == {60}

Users == {"u1", "u2"}
Payloads == {"a", "b", "c"}
ClockSteps == {12}
StartTime == ONE_DAY + 12

\* length of a payload's data URL
UrlLength(p) ==
  CASE p = "a" -> 2560
    [] p = "b" -> 2485
    [] p = "c" -> 1
    [] OTHER -> 0

\* the kinds of file a user can select: a media file with one of the
\* payloads, or a file that is neither image nor video
FileKinds == [payload : Payloads, isMedia : {TRUE}] \cup
             {[payload |-> "doc", isMedia |-> FALSE]}

MediaKind(p) == [payload |-> p, isMedia |-> TRUE]

DocKind == [payload |-> "doc", isMedia |-> FALSE]

NoUser == [id |-> "none", lastCheckIn |-> 0, checkInStreak |-> 0, bonusStorage |-> 0]

NoItem == [id |-> 0, userId |-> "none", url |-> "none"]

VARIABLES
  now,             \* Date.now()
  dbUsers,         \* IndexedDB store 'users', by user id
  dbMedia,         \* IndexedDB store 'media_items'
  session,         \* localStorage 'lumina_current_user'
  currentUser,     \* React state
  media,           \* React state
  isProcessing,    \* React state
  processProgress, \* React state
  duplicateCount,  \* React state
  pendingFiles,    \* React state
  queueTimeLeft,   \* React state
  tasks,           \* the handleFileUpload invocations, by batch number
  nextBatch,       \* number of the next batch
  nextId,          \* next fresh media id
  lastOp,          \* observation: the last handler that ran and its result
  checkInsToday,   \* observation: accepted check-ins per user on today's date
  epoch            \* observation: per user, the last real check-in

vars == <<now, dbUsers, dbMedia, session, currentUser, media, isProcessing,
          processProgress, duplicateCount, pendingFiles, queueTimeLeft,
          tasks, nextBatch, nextId, lastOp, checkInsToday, epoch>>

\* ------------------------------------------------------------------------
\* Helpers
\* ------------------------------------------------------------------------
Max(a, b) == IF a >= b THEN a ELSE b

Min(a, b) == IF a <= b THEN a ELSE b

\* new Date(y, m, d).getTime(): local midnight of the timestamp's date
StartOfDay(ts) == ts - (ts % ONE_DAY)

RECURSIVE SumLen(_)
SumLen(s) == IF s = <<>> THEN 0 ELSE UrlLength(Head(s).url) + SumLen(Tail(s))

\* variant: the items are not filtered by owner
OwnedByAnyone(uid, items) == items

\* items.filter(item => item.userId === user.id)
OwnedBy(uid, items) == SelectSeq(items, LAMBDA it : it.userId = uid)

getStorageUsed(user, items) == SumLen(OwnedBy(user.id, items))

\* totalStorageLimit of a render whose currentUser is `user`
totalStorageLimit(user) == BASE_STORAGE_BYTES + user.bonusStorage

\* getAllMedia(): the records of the store in key order
RECURSIVE getAllMedia(_)
getAllMedia(S) ==
  IF S = {} THEN <<>>
  ELSE LET m == CHOOSE x \in S : \A y \in S : x.id <= y.id
       IN <<m>> \o getAllMedia(S \ {m})

Range(s) == {s[i] : i \in 1..Len(s)}

\* usage and ceiling computed from the persisted stores
PersistedUsed(uid) == SumLen(OwnedBy(uid, getAllMedia(dbMedia)))

PersistedQuota(uid) == BASE_STORAGE_BYTES + dbUsers[uid].bonusStorage

\* prev.filter(item => item.userId !== uid)
NotOwnedBy(uid, items) == SelectSeq(items, LAMBDA it : it.userId # uid)

\* ------------------------------------------------------------------------
\* Daily reconciliation (applyDailyLogic)
\* ------------------------------------------------------------------------
diffDaysOf(user) == (StartOfDay(now) - StartOfDay(user.lastCheckIn)) \div ONE_DAY

\* variant: the penalty is applied whatever the usage is
WipeTestNever(usedSpace, potentialLimit) == FALSE

\* usedSpace > potentialLimit
WipeTest(usedSpace, potentialLimit) == usedSpace > potentialLimit

\* the wipe branch entered once diffDays >= 2
wipeBranch(user, currentMedia) ==
  LET missedDaysCount == diffDaysOf(user) - 1
      usedSpace       == getStorageUsed(user, currentMedia)
      totalPenalty    == missedDaysCount * PENALTY_PER_MISS
      potentialBonus  == user.bonusStorage - totalPenalty
      potentialLimit  == BASE_STORAGE_BYTES + potentialBonus
  IN WipeTest(usedSpace, potentialLimit)

\* variant: the penalty branch leaves lastCheckIn where it was
PenaltyLastCheckInKept(user, missedDaysCount) ==
  user.lastCheckIn

\* variant: the penalty branch moves lastCheckIn forward by one day only
PenaltyLastCheckInOneDay(user, missedDaysCount) ==
  user.lastCheckIn + ONE_DAY

\* lastCheckIn written by the penalty branch
PenaltyLastCheckIn(user, missedDaysCount) ==
  user.lastCheckIn + (missedDaysCount * ONE_DAY)

\* variant: no day of grace
PenaltyDueAfterOneDay(diffDays) == diffDays >= 1

\* diffDays >= 2
PenaltyDue(diffDays) == diffDays >= 2

\* variant: the wipe branch dates the record like the penalty branch does
WipedUserYesterday(user) ==
  [user EXCEPT !.bonusStorage = 0, !.checkInStreak = 0,
               !.lastCheckIn = now - ONE_DAY]

\* variant: the wipe branch forgets to reset the bonus
WipedUserKeepsBonus(user) ==
  [user EXCEPT !.checkInStreak = 0, !.lastCheckIn = now]

\* the user record written by the wipe branch
WipedUser(user) ==
  [user EXCEPT !.bonusStorage = 0, !.checkInStreak = 0, !.lastCheckIn = now]

\* the result of applyDailyLogic(user, currentMedia): the returned user and
\* mediaReset flag, the records it deletes, whether it saves the user, and
\* the alert it raises
applyDailyLogic(user, currentMedia) ==
  IF user.lastCheckIn = 0
  THEN [user |-> user, mediaReset |-> FALSE, deleted |-> {}, saved |-> FALSE,
        alert |-> "none"]
  ELSE
    LET diffDays == diffDaysOf(user) IN
    IF PenaltyDue(diffDays)
    THEN
      LET missedDaysCount == diffDays - 1
          totalPenalty    == missedDaysCount * PENALTY_PER_MISS
          potentialBonus  == user.bonusStorage - totalPenalty
      IN
      IF wipeBranch(user, currentMedia)
      THEN [user |-> WipedUser(user),
            mediaReset |-> TRUE,
            deleted |-> Range(OwnedBy(user.id, currentMedia)),
            saved |-> TRUE, alert |-> "wipe"]
      ELSE [user |-> [user EXCEPT !.bonusStorage = potentialBonus,
                                  !.checkInStreak = 0,
                                  !.lastCheckIn =
                                     PenaltyLastCheckIn(user, missedDaysCount)],
            mediaReset |-> FALSE, deleted |-> {}, saved |-> TRUE,
            alert |-> "penalty"]
    ELSE [user |-> user, mediaReset |-> FALSE, deleted |-> {}, saved |-> FALSE,
          alert |-> "none"]

\* the storage effects of one applyDailyLogic call
ReconcileStores(r) ==
  /\ dbMedia' = dbMedia \ r.deleted
  /\ dbUsers' = IF r.saved THEN [dbUsers EXCEPT ![r.user.id] = r.user]
                ELSE dbUsers

\* what the last handler did: its kind ("reconcile" for a sign-in or page
\* load that ran applyDailyLogic, "checkin", "process" for a processFileItem
\* call, "other"), the window.alert it raised ("none" when it raised none)
\* and the mediaReset flag its reconciliation returned
Op(kind, mediaReset, alert) ==
  [op |-> kind, mediaReset |-> mediaReset, alert |-> alert]

\* what is remembered of a user's last real check-in (a sign-up, an accepted
\* check-in or a wipe, the three places that write lastCheckIn = Date.now()):
\* its time, the bonus it left, whether a penalty or a wipe has been applied
\* at the present value of the clock, and the number of penalty-path
\* reconciliations since
EpochAt(ts, bonus, penalisedNow) ==
  [anchor |-> ts, bonus |-> bonus, penalisedNow |-> penalisedNow,
   penalties |-> 0, wiped |-> FALSE]

\* the epoch of user uid after an applyDailyLogic call that returned r
ReconcileEpoch(uid, r) ==
  IF r.alert = "wipe" THEN [EpochAt(now, 0, TRUE) EXCEPT !.wiped = TRUE]
  ELSE IF r.alert = "penalty"
       THEN [epoch[uid] EXCEPT !.penalisedNow = TRUE, !.penalties = @ + 1]
  ELSE epoch[uid]

\* ------------------------------------------------------------------------
\* Session handlers
\* ------------------------------------------------------------------------
\* handleLogin(user): reconcile against the stored media, then open the
\* session; `users` is the user store at the time of the call
handleLogin(user, users) ==
  LET savedMedia == getAllMedia(dbMedia)
      result     == applyDailyLogic(user, savedMedia)
  IN /\ dbMedia' = dbMedia \ result.deleted
     /\ dbUsers' = IF result.saved THEN [users EXCEPT ![user.id] = result.user]
                   ELSE users
     /\ currentUser' = result.user
     /\ session' = result.user
     /\ media' = IF result.mediaReset
                 THEN NotOwnedBy(result.user.id, media)
                 ELSE savedMedia
     /\ lastOp' = Op("reconcile", result.mediaReset, result.alert)

\* handleAuth, view 'signin': an existing user signs in
Login(u) ==
  /\ currentUser = NoUser
  /\ dbUsers[u] # NoUser
  /\ handleLogin(dbUsers[u], dbUsers)
  /\ epoch' = [epoch EXCEPT ![u] =
                 ReconcileEpoch(u, applyDailyLogic(dbUsers[u], getAllMedia(dbMedia)))]
  /\ UNCHANGED <<now, isProcessing, processProgress, duplicateCount,
                 pendingFiles, queueTimeLeft, tasks, nextBatch, nextId,
                 checkInsToday>>

\* variant: a new account counts as checked in until tomorrow
SignupLastCheckInTomorrow == now + ONE_DAY

\* lastCheckIn of a new account
SignupLastCheckIn == now

\* handleAuth, view 'signup': a new account is stored and signed in
Signup(u) ==
  /\ currentUser = NoUser
  /\ dbUsers[u] = NoUser
  /\ LET newUser == [id |-> u, lastCheckIn |-> SignupLastCheckIn,
                     checkInStreak |-> 0, bonusStorage |-> 0]
     IN handleLogin(newUser, [dbUsers EXCEPT ![u] = newUser])
  /\ epoch' = [epoch EXCEPT ![u] = EpochAt(now, 0, FALSE)]
  /\ UNCHANGED <<now, isProcessing, processProgress, duplicateCount,
                 pendingFiles, queueTimeLeft, tasks, nextBatch, nextId,
                 checkInsToday>>

\* handleLogout: the session ends; timers already armed are not cleared
Logout ==
  /\ currentUser # NoUser
  /\ currentUser' = NoUser
  /\ session' = NoUser
  /\ pendingFiles' = <<>>
  /\ queueTimeLeft' = 0
  /\ lastOp' = Op("other", FALSE, "none")
  /\ UNCHANGED <<now, dbUsers, dbMedia, media, isProcessing, processProgress,
                 duplicateCount, tasks, nextBatch, nextId, checkInsToday, epoch>>

\* a handleFileUpload invocation: its position (phase, i, j, the delay last
\* armed), its locals (fileList, immediateResults), the currentUser and media
\* of the render that created it, and the record of the processFileItem
\* calls it has made
NoTask == [phase |-> "none", fileList |-> <<>>, i |-> 0, j |-> 0,
           immediateResults |-> <<>>, user |-> NoUser, media |-> <<>>,
           timer |-> 0, log |-> <<>>]

\* a task that will run no more keeps only its files and its record
Retired(t, phase) ==
  [NoTask EXCEPT !.phase = phase, !.fileList = t.fileList, !.i = t.i,
                 !.j = t.j, !.log = t.log]

\* a task of a page that was closed: its timers and continuations are gone
Abandon(t) == IF t.phase \in {"none", "done", "failed", "abandoned"} THEN t
              ELSE Retired(t, "abandoned")

\* the page is reloaded: component state starts over and init() runs
Reload ==
  LET savedMedia == getAllMedia(dbMedia)
      result     == applyDailyLogic(session, savedMedia)
  IN /\ IF session # NoUser
        THEN /\ ReconcileStores(result)
             /\ currentUser' = result.user
             /\ session' = result.user
             /\ media' = IF result.mediaReset
                         THEN NotOwnedBy(result.user.id, savedMedia)
                         ELSE savedMedia
             /\ lastOp' = Op("reconcile", result.mediaReset, result.alert)
             /\ epoch' = [epoch EXCEPT ![session.id] =
                            ReconcileEpoch(session.id, result)]
        ELSE /\ UNCHANGED <<dbMedia, dbUsers, session, epoch>>
             /\ currentUser' = NoUser
             /\ media' = savedMedia
             /\ lastOp' = Op("other", FALSE, "none")
     /\ isProcessing' = FALSE
     /\ processProgress' = [current |-> 0, total |-> 0]
     /\ duplicateCount' = 0
     /\ pendingFiles' = <<>>
     /\ queueTimeLeft' = 0
     /\ tasks' = [b \in DOMAIN tasks |-> Abandon(tasks[b])]
     /\ UNCHANGED <<now, nextBatch, nextId, checkInsToday>>

\* ------------------------------------------------------------------------
\* Storage failures during reconciliation
\* ------------------------------------------------------------------------
\* number of storage calls applyDailyLogic(user, currentMedia) makes: one
\* deleteMediaItem per item of the user and one saveUserToDB on the wipe
\* path, one saveUserToDB on the penalty path, none otherwise
StorageCalls(user, currentMedia) ==
  LET r == applyDailyLogic(user, currentMedia) IN
  IF r.mediaReset THEN Len(OwnedBy(user.id, currentMedia)) + 1
  ELSE IF r.saved THEN 1
  ELSE 0

\* the records already deleted when the k-th storage call rejects: each
\* deleteMediaItem is a transaction of its own and the loop runs in the
\* order of currentMedia
DeletedBefore(user, currentMedia, k) ==
  IF applyDailyLogic(user, currentMedia).mediaReset
  THEN Range(SubSeq(OwnedBy(user.id, currentMedia), 1, k - 1))
  ELSE {}

\* handleLogin(user) in which the k-th storage call of applyDailyLogic
\* rejects: the rejection leaves handleLogin before any of its setters
LoginFails(u, k) ==
  LET savedMedia == getAllMedia(dbMedia) IN
  /\ currentUser = NoUser
  /\ dbUsers[u] # NoUser
  /\ k \in 1..StorageCalls(dbUsers[u], savedMedia)
  /\ dbMedia' = dbMedia \ DeletedBefore(dbUsers[u], savedMedia, k)
  /\ lastOp' = Op("reconcileFailed", FALSE, "none")
  /\ UNCHANGED <<now, dbUsers, session, currentUser, media, isProcessing,
                 processProgress, duplicateCount, pendingFiles, queueTimeLeft,
                 tasks, nextBatch, nextId, checkInsToday, epoch>>

\* a page load in which the k-th storage call of applyDailyLogic rejects:
\* init() has set the media it read, its catch logs the error, and the
\* user of the session is not set
ReloadFails(k) ==
  LET savedMedia == getAllMedia(dbMedia) IN
  /\ session # NoUser
  /\ k \in 1..StorageCalls(session, savedMedia)
  /\ dbMedia' = dbMedia \ DeletedBefore(session, savedMedia, k)
  /\ media' = savedMedia
  /\ currentUser' = NoUser
  /\ lastOp' = Op("reconcileFailed", FALSE, "none")
  /\ isProcessing' = FALSE
  /\ processProgress' = [current |-> 0, total |-> 0]
  /\ duplicateCount' = 0
  /\ pendingFiles' = <<>>
  /\ queueTimeLeft' = 0
  /\ tasks' = [b \in DOMAIN tasks |-> Abandon(tasks[b])]
  /\ UNCHANGED <<now, dbUsers, session, nextBatch, nextId, checkInsToday,
                 epoch>>

\* ------------------------------------------------------------------------
\* Check-in (handleCheckIn)
\* ------------------------------------------------------------------------
\* variant: the timestamps are compared, not their dates
AlreadyCheckedInExact(user) == user.lastCheckIn = now

\* todayStr === lastDayStr
AlreadyCheckedIn(user) ==
  LET todayStr   == StartOfDay(now)
      lastDayStr == IF user.lastCheckIn # 0 THEN StartOfDay(user.lastCheckIn)
                    ELSE 0
  IN todayStr = lastDayStr

\* variant: the streak is set to 1 rather than incremented
CheckedInStreakOne(user) ==
  [user EXCEPT !.lastCheckIn = now,
               !.checkInStreak = 1,
               !.bonusStorage = user.bonusStorage + BONUS_PER_CHECKIN]

\* the record handleCheckIn stores
CheckedIn(user) ==
  [user EXCEPT !.lastCheckIn = now,
               !.checkInStreak = user.checkInStreak + 1,
               !.bonusStorage = user.bonusStorage + BONUS_PER_CHECKIN]

CheckIn ==
  /\ currentUser # NoUser
  /\ IF AlreadyCheckedIn(currentUser)
     THEN /\ lastOp' = Op("checkin", FALSE, "already")
          /\ UNCHANGED <<dbUsers, currentUser, session, checkInsToday, epoch>>
     ELSE LET updatedUser == CheckedIn(currentUser)
          IN /\ dbUsers' = [dbUsers EXCEPT ![currentUser.id] = updatedUser]
             /\ currentUser' = updatedUser
             /\ session' = updatedUser
             /\ lastOp' = Op("checkin", FALSE, "success")
             /\ checkInsToday' = [checkInsToday EXCEPT
                                    ![currentUser.id] = @ + 1]
             /\ epoch' = [epoch EXCEPT ![currentUser.id] =
                            EpochAt(now, updatedUser.bonusStorage,
                                    @.penalisedNow)]
  /\ UNCHANGED <<now, dbMedia, media, isProcessing, processProgress,
                 duplicateCount, pendingFiles, queueTimeLeft, tasks, nextBatch,
                 nextId>>

\* variant: setCurrentUser(updatedUser) is called before the save is awaited
UserSetBeforeSave(user) == CheckedIn(user)

\* the user in memory after a handleCheckIn whose saveUserToDB rejected:
\* setCurrentUser(updatedUser) follows the await and is not reached
UserAfterRejectedSave(user) == user

\* handleCheckIn in which saveUserToDB rejects: none of the setters runs
CheckInFails ==
  /\ currentUser # NoUser
  /\ ~AlreadyCheckedIn(currentUser)
  /\ currentUser' = UserAfterRejectedSave(currentUser)
  /\ lastOp' = Op("checkinFailed", FALSE, "none")
  /\ UNCHANGED <<now, dbUsers, dbMedia, session, media,
                 isProcessing, processProgress, duplicateCount, pendingFiles,
                 queueTimeLeft, tasks, nextBatch, nextId, checkInsToday,
                 epoch>>

\* the clock moves on; a new calendar day starts the per-day count afresh
AdvanceClock(step) ==
  /\ now + step < (MaxDay + 1) * ONE_DAY
  /\ now' = now + step
  /\ lastOp' = Op("other", FALSE, "none")
  /\ checkInsToday' = IF StartOfDay(now + step) # StartOfDay(now)
                      THEN [u \in Users |-> 0] ELSE checkInsToday
  /\ epoch' = [u \in Users |-> [epoch[u] EXCEPT !.penalisedNow = FALSE]]
  /\ UNCHANGED <<dbUsers, dbMedia, session, currentUser, media, isProcessing,
                 processProgress, duplicateCount, pendingFiles, queueTimeLeft,
                 tasks, nextBatch, nextId>>

\* ------------------------------------------------------------------------
\* Upload (processFileItem, handleFileUpload)
\* ------------------------------------------------------------------------
\* variant: only the first file is taken into the immediate lane
immediateFilesOfOne(fileList) == SubSeq(fileList, 1, Min(1, Len(fileList)))

\* fileList.slice(0, 2)
immediateFilesOf(fileList) == SubSeq(fileList, 1, Min(IMMEDIATE_COUNT, Len(fileList)))

\* variant: the first file after the immediate lane is left out
queuedFilesOfSkipOne(fileList) ==
  SubSeq(fileList, IMMEDIATE_COUNT + 2, Len(fileList))

\* fileList.slice(2)
queuedFilesOf(fileList) == SubSeq(fileList, IMMEDIATE_COUNT + 1, Len(fileList))

\* media.some(item => item.userId === currentUser.id && item.url === base64Data)
isDuplicate(user, items, payload) ==
  \E k \in 1..Len(items) : items[k].userId = user.id /\ items[k].url = payload

\* currentStorageUsed + base64Data.length > totalStorageLimit
LimitReached(used, size, limit) == used + size > limit

\* the values processFileItem reads: currentUser, media, currentStorageUsed
\* and totalStorageLimit of the render in which the batch's handleFileUpload
\* was created (t.user, t.media), not those of the latest render
SeenUser(t) == t.user

SeenMedia(t) == t.media

currentStorageUsedOf(t) == getStorageUsed(SeenUser(t), SeenMedia(t))

totalStorageLimitOf(t) == totalStorageLimit(SeenUser(t))

\* outcome of processFileItem(file) called from task t
processStatus(t, file) ==
  IF ~file.isMedia THEN "skipped"
  ELSE IF isDuplicate(SeenUser(t), SeenMedia(t), file.payload) THEN "duplicate"
  ELSE IF LimitReached(currentStorageUsedOf(t), UrlLength(file.payload),
                       totalStorageLimitOf(t))
       THEN "rejected"
  ELSE "success"

\* variant: the limit check raises its alert and goes on to save the file
PersistsDespiteLimit(status) == status \in {"success", "rejected"}

\* the outcomes in which processFileItem reaches saveMediaItem
Persists(status) == status = "success"

newItemOf(t, file) == [id |-> nextId, userId |-> SeenUser(t).id, url |-> file.payload]

\* processFileItem(file) called from task t: the duplicate counter, the
\* media store and the alert of a rejection
processFileItem(t, file) ==
  LET status == processStatus(t, file) IN
  /\ duplicateCount' = IF status = "duplicate" THEN duplicateCount + 1
                       ELSE duplicateCount
  /\ dbMedia' = IF Persists(status) THEN dbMedia \cup {newItemOf(t, file)}
                ELSE dbMedia
  /\ nextId' = IF Persists(status) THEN nextId + 1 ELSE nextId
  /\ lastOp' = Op("process", FALSE, IF status = "rejected" THEN "limit" ELSE "none")

\* the record of that call: the file, the lane, the delay waited before it
\* and the outcome
Processed(t, file, lane) ==
  Append(t.log, [file |-> file, lane |-> lane, after |-> t.timer,
                 status |-> processStatus(t, file)])

RECURSIVE SumFiles(_)
SumFiles(B) == IF B = {} THEN 0
               ELSE LET b == CHOOSE x \in B : TRUE
                    IN Len(tasks[b].fileList) + SumFiles(B \ {b})

\* number of files selected so far, over all batches
FilesSelected == SumFiles(DOMAIN tasks)

\* handleFileUpload up to its first await: a batch is selected, as long as
\* no more than `cap` files have been selected in all
StartUploadWithin(kinds, cap) ==
  /\ Len(kinds) > 0
  /\ currentUser # NoUser
  /\ ~isProcessing
  /\ nextBatch <= MaxBatches
  /\ FilesSelected + Len(kinds) <= cap
  /\ LET fileList == [k \in 1..Len(kinds) |->
                        [bid |-> nextBatch, idx |-> k,
                         payload |-> kinds[k].payload,
                         isMedia |-> kinds[k].isMedia]]
     IN tasks' = [tasks EXCEPT ![nextBatch] =
                    [phase |-> "immediate", fileList |-> fileList,
                     i |-> 0, j |-> 0, immediateResults |-> <<>>,
                     user |-> currentUser, media |-> media, timer |-> 0,
                     log |-> <<>>]]
  /\ processProgress' = [current |-> 0, total |-> Len(kinds)]
  /\ duplicateCount' = 0
  /\ isProcessing' = TRUE
  /\ nextBatch' = nextBatch + 1
  /\ lastOp' = Op("other", FALSE, "none")
  /\ UNCHANGED <<now, dbUsers, dbMedia, session, currentUser, media,
                 pendingFiles, queueTimeLeft, nextId, checkInsToday, epoch>>

StartUpload(kinds) == StartUploadWithin(kinds, MaxTotalFiles)

\* one iteration of the immediate loop; the last one publishes the results
\* and, when files remain, arms the queue
\* variant: the immediate loop is left after its first file
immediateLaneEndsAfterOne(i, immediateFiles) == i + 1 >= 1

\* for (let i = 0; i < immediateFiles.length; i++): iteration i is the last
immediateLaneEnds(i, immediateFiles) == i + 1 = Len(immediateFiles)

ImmediateStep(b) ==
  LET t              == tasks[b]
      immediateFiles == immediateFilesOf(t.fileList)
      queuedFiles    == queuedFilesOf(t.fileList)
      file           == immediateFiles[t.i + 1]
      status         == processStatus(t, file)
      results        == IF Persists(status)
                        THEN Append(t.immediateResults, newItemOf(t, file))
                        ELSE t.immediateResults
      last           == immediateLaneEnds(t.i, immediateFiles)
  IN
  /\ t.phase = "immediate"
  /\ processFileItem(t, file)
  /\ processProgress' = [processProgress EXCEPT !.current = t.i + 1]
  /\ IF last
     THEN /\ media' = media \o results
          /\ isProcessing' = FALSE
          /\ IF Len(queuedFiles) > 0
             THEN /\ pendingFiles' = queuedFiles
                  /\ queueTimeLeft' = QUEUE_COUNTDOWN
                  /\ tasks' = [tasks EXCEPT ![b] =
                       [t EXCEPT !.phase = "initialDelay", !.i = t.i + 1,
                                 !.immediateResults = results,
                                 !.timer = INITIAL_QUEUE_DELAY,
                                 !.log = Processed(t, file, "immediate")]]
             ELSE /\ UNCHANGED <<pendingFiles, queueTimeLeft>>
                  /\ tasks' = [tasks EXCEPT ![b] =
                       Retired([t EXCEPT !.i = t.i + 1,
                                  !.log = Processed(t, file, "immediate")],
                               "done")]
     ELSE /\ tasks' = [tasks EXCEPT ![b] =
                 [t EXCEPT !.i = t.i + 1, !.immediateResults = results,
                           !.log = Processed(t, file, "immediate")]]
          /\ UNCHANGED <<media, isProcessing, pendingFiles, queueTimeLeft>>
  /\ UNCHANGED <<now, dbUsers, session, currentUser, nextBatch,
                 checkInsToday, epoch>>

\* variant: the queued lane counts its own files only
queuedProgressOwn(j) == j + 1

\* current: 2 + j + 1
queuedProgress(j) == 2 + j + 1

\* variant: only a stored file leaves the pending list
DequeuedOnSuccess(pending, file, status) ==
  IF status = "success" THEN SelectSeq(pending, LAMBDA f : f # file)
  ELSE pending

\* prev.filter(f => f !== file), whatever the outcome was
Dequeued(pending, file, status) == SelectSeq(pending, LAMBDA f : f # file)

\* the armed timer (initial delay or inter-file delay) expires and the
\* queued loop starts on its next file
QueuedBegin(b) ==
  /\ tasks[b].phase \in {"initialDelay", "interDelay"}
  /\ isProcessing' = TRUE
  /\ tasks' = [tasks EXCEPT ![b].phase = "queued"]
  /\ lastOp' = Op("other", FALSE, "none")
  /\ UNCHANGED <<now, dbUsers, dbMedia, session, currentUser, media,
                 processProgress, duplicateCount, pendingFiles, queueTimeLeft,
                 nextBatch, nextId, checkInsToday, epoch>>

\* the rest of one iteration of the queued loop
QueuedFinish(b) ==
  LET t             == tasks[b]
      filesToProcess == queuedFilesOf(t.fileList)
      file          == filesToProcess[t.j + 1]
      status        == processStatus(t, file)
      more          == t.j < Len(filesToProcess) - 1
  IN
  /\ t.phase = "queued"
  /\ processFileItem(t, file)
  /\ media' = IF Persists(status) THEN Append(media, newItemOf(t, file))
              ELSE media
  /\ pendingFiles' = Dequeued(pendingFiles, file, status)
  /\ processProgress' = [processProgress EXCEPT !.current = queuedProgress(t.j)]
  /\ isProcessing' = FALSE
  /\ IF more
     THEN /\ tasks' = [tasks EXCEPT ![b] =
                 [t EXCEPT !.phase = "interDelay", !.j = t.j + 1,
                           !.timer = SEQUENTIAL_DELAY,
                           !.log = Processed(t, file, "queued")]]
          /\ UNCHANGED queueTimeLeft
     ELSE /\ tasks' = [tasks EXCEPT ![b] =
                 Retired([t EXCEPT !.j = t.j + 1,
                            !.log = Processed(t, file, "queued")], "done")]
          /\ queueTimeLeft' = 0
  /\ UNCHANGED <<now, dbUsers, session, currentUser, nextBatch,
                 checkInsToday, epoch>>

\* an iteration of the immediate loop in which saveMediaItem rejects: the
\* rejection leaves handleFileUpload at once, before the progress update,
\* the publication of immediateResults and setIsProcessing(false)
ImmediateStepFails(b) ==
  LET t    == tasks[b]
      file == immediateFilesOf(t.fileList)[t.i + 1]
  IN
  /\ t.phase = "immediate"
  /\ processStatus(t, file) = "success"
  /\ tasks' = [tasks EXCEPT ![b] = Retired(t, "failed")]
  /\ lastOp' = Op("processFailed", FALSE, "none")
  /\ UNCHANGED <<now, dbUsers, dbMedia, session, currentUser, media,
                 isProcessing, processProgress, duplicateCount, pendingFiles,
                 queueTimeLeft, nextBatch, nextId, checkInsToday, epoch>>

\* an iteration of the queued loop in which saveMediaItem rejects: the
\* rejection leaves the timer callback after setIsProcessing(true)
QueuedFinishFails(b) ==
  LET t    == tasks[b]
      file == queuedFilesOf(t.fileList)[t.j + 1]
  IN
  /\ t.phase = "queued"
  /\ processStatus(t, file) = "success"
  /\ tasks' = [tasks EXCEPT ![b] = Retired(t, "failed")]
  /\ lastOp' = Op("processFailed", FALSE, "none")
  /\ UNCHANGED <<now, dbUsers, dbMedia, session, currentUser, media,
                 isProcessing, processProgress, duplicateCount, pendingFiles,
                 queueTimeLeft, nextBatch, nextId, checkInsToday, epoch>>

\* the countdown effect: `seconds` ticks of its one-second interval
Tick(seconds) ==
  /\ queueTimeLeft > 0
  /\ queueTimeLeft' = Max(0, queueTimeLeft - seconds)
  /\ lastOp' = Op("other", FALSE, "none")
  /\ UNCHANGED <<now, dbUsers, dbMedia, session, currentUser, media,
                 isProcessing, processProgress, duplicateCount, pendingFiles,
                 tasks, nextBatch, nextId, checkInsToday, epoch>>

\* deleteItem(id) on one of the current user's items
DeleteItem(id) ==
  /\ currentUser # NoUser
  /\ \E k \in 1..Len(media) : media[k].id = id /\ media[k].userId = currentUser.id
  /\ dbMedia' = {x \in dbMedia : x.id # id}
  /\ media' = SelectSeq(media, LAMBDA it : it.id # id)
  /\ lastOp' = Op("other", FALSE, "none")
  /\ UNCHANGED <<now, dbUsers, session, currentUser, isProcessing,
                 processProgress, duplicateCount, pendingFiles, queueTimeLeft,
                 tasks, nextBatch, nextId, checkInsToday, epoch>>

\* ------------------------------------------------------------------------
\* Gallery tools (cleanDuplicates, fullCleanStorage)
\* ------------------------------------------------------------------------
\* the ids pushed to `duplicates`: every item of userMedia whose url was seen
\* at an earlier position
duplicatesOf(userMedia) ==
  {userMedia[k].id : k \in {i \in 1..Len(userMedia) :
                              \E j \in 1..(i - 1) :
                                 userMedia[j].url = userMedia[i].url}}

\* cleanDuplicates(); `confirmed` is the answer to its window.confirm
cleanDuplicates(confirmed) ==
  LET userMedia  == OwnedBy(currentUser.id, media)
      duplicates == duplicatesOf(userMedia)
  IN
  /\ currentUser # NoUser
  /\ IF duplicates = {}
     THEN /\ lastOp' = Op("dedupe", FALSE, "nodups")
          /\ UNCHANGED <<dbMedia, media>>
     ELSE IF ~confirmed
     THEN /\ lastOp' = Op("dedupe", FALSE, "declined")
          /\ UNCHANGED <<dbMedia, media>>
     ELSE /\ dbMedia' = {x \in dbMedia : x.id \notin duplicates}
          /\ media' = SelectSeq(media, LAMBDA it : it.id \notin duplicates)
          /\ lastOp' = Op("dedupe", FALSE, "removed")
  /\ UNCHANGED <<now, dbUsers, session, currentUser, isProcessing,
                 processProgress, duplicateCount, pendingFiles, queueTimeLeft,
                 tasks, nextBatch, nextId, checkInsToday, epoch>>

\* fullCleanStorage(); `confirmed` is the answer to its window.confirm
fullCleanStorage(confirmed) ==
  LET userMedia == OwnedBy(currentUser.id, media) IN
  /\ currentUser # NoUser
  /\ IF ~confirmed
     THEN /\ lastOp' = Op("reset", FALSE, "declined")
          /\ UNCHANGED <<dbMedia, media>>
     ELSE /\ dbMedia' = {x \in dbMedia :
                           x.id \notin {it.id : it \in Range(userMedia)}}
          /\ media' = NotOwnedBy(currentUser.id, media)
          /\ lastOp' = Op("reset", FALSE, "cleared")
  /\ UNCHANGED <<now, dbUsers, session, currentUser, isProcessing,
                 processProgress, duplicateCount, pendingFiles, queueTimeLeft,
                 tasks, nextBatch, nextId, checkInsToday, epoch>>

\* ------------------------------------------------------------------------
\* Initial state and specifications
\* ------------------------------------------------------------------------
\* an account written by an earlier build of the application, which stored
\* none of the check-in fields
LegacyUser(u) == [id |-> u, lastCheckIn |-> 0, checkInStreak |-> 0,
                  bonusStorage |-> 0]

\* the page has loaded on an empty media store with nobody signed in; the
\* user store is one of `stores`
InitWith(stores) ==
  /\ now = StartTime
  /\ dbUsers \in stores
  /\ dbMedia = {}
  /\ session = NoUser
  /\ currentUser = NoUser
  /\ media = <<>>
  /\ isProcessing = FALSE
  /\ processProgress = [current |-> 0, total |-> 0]
  /\ duplicateCount = 0
  /\ pendingFiles = <<>>
  /\ queueTimeLeft = 0
  /\ tasks = [b \in 1..MaxBatches |-> NoTask]
  /\ nextBatch = 1
  /\ nextId = 1
  /\ lastOp = Op("other", FALSE, "none")
  /\ checkInsToday = [u \in Users |-> 0]
  /\ epoch = [u \in Users |->
                EpochAt(dbUsers[u].lastCheckIn, dbUsers[u].bonusStorage, FALSE)]

NoAccounts == [u \in Users |-> NoUser]

\* the user store with the legacy account of u alone
LegacyStore(u) == [NoAccounts EXCEPT ![u] = LegacyUser(u)]

Init == InitWith({NoAccounts, LegacyStore("u1")})

RECURSIVE SeqsUpTo(_, _)
SeqsUpTo(S, n) ==
  IF n = 0 THEN {<<>>}
  ELSE LET shorter == SeqsUpTo(S, n - 1)
       IN shorter \cup {Append(s, x) : s \in shorter, x \in S}

\* Ledger scope: one account (new or legacy), the clock, sign-in, sign-out,
\* reload and check-in, with single-file batches feeding the store
LedgerBatches == {<<MediaKind("b")>>, <<MediaKind("c")>>}

NextLedger ==
  \/ Signup("u1")
  \/ Login("u1")
  \/ Logout
  \/ Reload
  \/ CheckIn
  \/ \E step \in ClockSteps : AdvanceClock(step)
  \/ \E kinds \in LedgerBatches : StartUpload(kinds)
  \/ \E b \in 1..MaxBatches : ImmediateStep(b)

Spec == Init /\ [][NextLedger]_vars

\* Lapsed scope: one account that signed up with the present build, stored
\* nothing and stayed away for LapsedDays + 1 days; the reconciliation of
\* yesterday's visit charged LapsedDays missed days and left lastCheckIn on
\* the day before.  One more missed day still fits the quota, a second one
\* would make it negative
LapsedDays == (BASE_STORAGE_BYTES \div PENALTY_PER_MISS) - 1

LapsedUser(u) == [id |-> u, lastCheckIn |-> StartTime - ONE_DAY,
                  checkInStreak |-> 0,
                  bonusStorage |-> 0 - (LapsedDays * PENALTY_PER_MISS)]

LapsedStore(u) == [NoAccounts EXCEPT ![u] = LapsedUser(u)]

LapsedBatches == {<<MediaKind("c")>>}

InitLapsed == InitWith({LapsedStore("u1")})

NextLapsed ==
  \/ Login("u1")
  \/ Logout
  \/ Reload
  \/ CheckIn
  \/ \E step \in ClockSteps : AdvanceClock(step)
  \/ \E kinds \in LapsedBatches : StartUpload(kinds)
  \/ \E b \in 1..MaxBatches : ImmediateStep(b)

SpecLapsed == InitLapsed /\ [][NextLapsed]_vars

\* Upload scope: one legacy account on one calendar day, batches of up to
\* MaxFiles files in both lanes, with deletion, check-in, sign-out, sign-in
\* and reload in between
UploadKinds == {MediaKind("a"), MediaKind("c")}

UploadBatches == SeqsUpTo(UploadKinds, MaxFiles) \ {<<>>}

InitUpload == InitWith({LegacyStore("u1")})

NextUpload ==
  \/ Login("u1")
  \/ Logout
  \/ Reload
  \/ CheckIn
  \/ \E kinds \in UploadBatches : StartUpload(kinds)
  \/ \E b \in 1..MaxBatches : ImmediateStep(b)
  \/ \E b \in 1..MaxBatches : QueuedBegin(b)
  \/ \E b \in 1..MaxBatches : QueuedFinish(b)
  \/ \E id \in {m.id : m \in dbMedia} : DeleteItem(id)

SpecUpload == InitUpload /\ [][NextUpload]_vars

\* lane scope: the batch scheduling of handleFileUpload alone, with the
\* countdown and with sign-in, sign-out and reload around it; no gallery
\* edits, no check-ins
NextLanes ==
  \/ Login("u1")
  \/ Logout
  \/ Reload
  \/ \E kinds \in UploadBatches : StartUpload(kinds)
  \/ \E b \in 1..MaxBatches : ImmediateStep(b)
  \/ \E b \in 1..MaxBatches : QueuedBegin(b)
  \/ \E b \in 1..MaxBatches : QueuedFinish(b)
  \/ \E seconds \in TickSteps : Tick(seconds)

SpecLanes == InitUpload /\ [][NextLanes]_vars

\* overlap scope: batches of three files, so that every batch has a queue
\* and a batch can be selected while the queue of an earlier one waits or
\* runs; the page stays open and no storage call fails.  The continuation of
\* an await and an armed timer run in the end: the steps of a batch are
\* weakly fair
OverlapBatches == {<<MediaKind("c"), MediaKind("c"), MediaKind("c")>>,
                   <<MediaKind("a"), MediaKind("c"), MediaKind("a")>>}

OverlapFiles == MaxBatches * (IMMEDIATE_COUNT + 1)

NextOverlap ==
  \/ Login("u1")
  \/ Logout
  \/ \E kinds \in OverlapBatches : StartUploadWithin(kinds, OverlapFiles)
  \/ \E b \in 1..MaxBatches : ImmediateStep(b)
  \/ \E b \in 1..MaxBatches : QueuedBegin(b)
  \/ \E b \in 1..MaxBatches : QueuedFinish(b)

SpecOverlap ==
  /\ InitUpload
  /\ [][NextOverlap]_vars
  /\ \A b \in 1..MaxBatches :
        /\ WF_vars(ImmediateStep(b))
        /\ WF_vars(QueuedBegin(b))
        /\ WF_vars(QueuedFinish(b))

\* owners scope: two accounts of the present build on one device, each with
\* its own uploads, gallery tools and reconciliations, taking
\* turns at the session; the clock moves by two days at a time
SignedUpUser(u) == [id |-> u, lastCheckIn |-> StartTime, checkInStreak |-> 0,
                    bonusStorage |-> 0]

TwoAccounts == [u \in Users |-> SignedUpUser(u)]

OwnerBatches == {<<MediaKind("a")>>, <<MediaKind("c")>>,
                 <<MediaKind("c"), MediaKind("c")>>}

OwnerClockSteps == {2 * ONE_DAY}

OwnerFiles == MaxBatches + 1

InitOwners == InitWith({TwoAccounts})

NextOwners ==
  \/ \E u \in Users : Login(u)
  \/ Logout
  \/ \E step \in OwnerClockSteps : AdvanceClock(step)
  \/ \E kinds \in OwnerBatches : StartUploadWithin(kinds, OwnerFiles)
  \/ \E b \in 1..MaxBatches : ImmediateStep(b)
  \/ cleanDuplicates(TRUE)
  \/ fullCleanStorage(TRUE)

SpecOwners == InitOwners /\ [][NextOwners]_vars

\* tools scope: the gallery tools on top of the uploads of the lane scope
NextTools ==
  \/ Login("u1")
  \/ Logout
  \/ Reload
  \/ \E kinds \in UploadBatches : StartUpload(kinds)
  \/ \E b \in 1..MaxBatches : ImmediateStep(b)
  \/ \E b \in 1..MaxBatches : QueuedBegin(b)
  \/ \E b \in 1..MaxBatches : QueuedFinish(b)
  \/ \E confirmed \in BOOLEAN : cleanDuplicates(confirmed)
  \/ \E confirmed \in BOOLEAN : fullCleanStorage(confirmed)

SpecTools == InitUpload /\ [][NextTools]_vars

\* ledger scope with storage failures: one new account, the clock, and a
\* two-file batch feeding the store; any storage call of a reconciliation
\* or of a check-in may reject
FaultBatches == {<<MediaKind("c"), MediaKind("b")>>}

InitFault == InitWith({NoAccounts})

NextFault ==
  \/ Signup("u1")
  \/ Login("u1")
  \/ Logout
  \/ Reload
  \/ CheckIn
  \/ \E step \in ClockSteps : AdvanceClock(step)
  \/ \E kinds \in FaultBatches : StartUpload(kinds)
  \/ \E b \in 1..MaxBatches : ImmediateStep(b)
  \/ \E k \in 1..(MaxTotalFiles + 1) : LoginFails("u1", k)
  \/ \E k \in 1..(MaxTotalFiles + 1) : ReloadFails(k)
  \/ CheckInFails

SpecFault == InitFault /\ [][NextFault]_vars

\* lane scope with storage failures: the uploads of the lane scope, in which
\* any saveMediaItem call may reject
NextLaneFault ==
  \/ Login("u1")
  \/ Logout
  \/ Reload
  \/ \E kinds \in UploadBatches : StartUpload(kinds)
  \/ \E b \in 1..MaxBatches : ImmediateStep(b)
  \/ \E b \in 1..MaxBatches : QueuedBegin(b)
  \/ \E b \in 1..MaxBatches : QueuedFinish(b)
  \/ \E b \in 1..MaxBatches : ImmediateStepFails(b)
  \/ \E b \in 1..MaxBatches : QueuedFinishFails(b)

SpecLaneFault == InitUpload /\ [][NextLaneFault]_vars

\* the same scope for what happens in the end: every iteration of a loop
\* that has been entered completes, by storing or by rejecting, and every
\* armed timer fires
SpecLaneFaultFair ==
  /\ InitUpload
  /\ [][NextLaneFault]_vars
  /\ \A b \in 1..MaxBatches :
        /\ WF_vars(ImmediateStep(b) \/ ImmediateStepFails(b))
        /\ WF_vars(QueuedBegin(b))
        /\ WF_vars(QueuedFinish(b) \/ QueuedFinishFails(b))

\* ------------------------------------------------------------------------
\* Properties
\* ------------------------------------------------------------------------
Last(s) == s[Len(s)]

\* calendar day of a timestamp
DayOf(ts) == ts \div 24

OwnedItems(uid, S) == {it \in S : it.userId = uid}

\* applyDailyLogic runs on `user` in this step: a sign-in of the stored
\* record, or a page load with the session's record
ReconcileRuns(user) ==
  /\ user # NoUser
  /\ \/ /\ currentUser = NoUser
        /\ user = dbUsers[user.id]
        /\ Login(user.id)
     \/ /\ user = session
        /\ Reload

Candidates == {dbUsers[u] : u \in Users} \cup {session}

\* the user for whom batch b processes its files
Owner(b) == SeenUser(tasks[b]).id

\* a processFileItem call is made in this step by batch b
Processes(b) == Len(tasks'[b].log) = Len(tasks[b].log) + 1

\* C1: the persisted media of every account sum to at most
\* BASE_QUOTA + bonusStorage, in every reachable state
C1_UsageWithinQuota ==
  \A u \in Users : dbUsers[u] # NoUser => PersistedUsed(u) <= PersistedQuota(u)

\* C2: every admission check compares the usage and the quota that are
\* current when the file is processed (what is persisted for the signed-in
\* owner at that moment)
C2_AdmissionReadsCurrentState ==
  [][\A b \in 1..MaxBatches :
       Processes(b) =>
         LET e == Last(tasks'[b].log) IN
         (e.status \in {"success", "rejected"} /\ currentUser.id = Owner(b)) =>
            /\ currentStorageUsedOf(tasks[b]) = PersistedUsed(Owner(b))
            /\ totalStorageLimitOf(tasks[b]) = PersistedQuota(Owner(b))]_vars

\* C3: wipe path.  A reconciliation with diffDays >= 2 and usage strictly
\* above BASE + bonus - (diffDays-1)*PENALTY deletes every item of the user,
\* stores bonusStorage = 0, checkInStreak = 0, lastCheckIn = now and returns
\* mediaReset = true
C3_WipePath ==
  [][\A user \in Candidates :
       (/\ ReconcileRuns(user)
        /\ user.lastCheckIn # 0
        /\ DayOf(now) - DayOf(user.lastCheckIn) >= 2
        /\ PersistedUsed(user.id) >
             BASE_STORAGE_BYTES + user.bonusStorage
               - (DayOf(now) - DayOf(user.lastCheckIn) - 1) * PENALTY_PER_MISS)
       =>
       /\ OwnedItems(user.id, dbMedia') = {}
       /\ dbUsers'[user.id].bonusStorage = 0
       /\ dbUsers'[user.id].checkInStreak = 0
       /\ dbUsers'[user.id].lastCheckIn = now
       /\ currentUser' = dbUsers'[user.id]
       /\ lastOp'.mediaReset = TRUE]_vars

\* a wipe has just run on stored media of an account with a bonus
C3_Witness ==
  /\ lastOp.op = "reconcile"
  /\ lastOp.alert = "wipe"
  /\ lastOp.mediaReset
  /\ currentUser # NoUser
  /\ OwnedItems(currentUser.id, dbMedia) = {}
  /\ nextId > 1

\* C4: penalty path.  A reconciliation with diffDays >= 2 and usage at most
\* BASE + bonus - (diffDays-1)*PENALTY lowers bonusStorage by exactly
\* (diffDays-1)*PENALTY, sets checkInStreak to 0, moves lastCheckIn forward
\* by exactly diffDays-1 days, deletes nothing and returns mediaReset = false
C4_PenaltyPath ==
  [][\A user \in Candidates :
       LET missed == DayOf(now) - DayOf(user.lastCheckIn) - 1 IN
       (/\ ReconcileRuns(user)
        /\ user.lastCheckIn # 0
        /\ missed >= 1
        /\ PersistedUsed(user.id) <=
             BASE_STORAGE_BYTES + user.bonusStorage - missed * PENALTY_PER_MISS)
       =>
       /\ dbUsers'[user.id].bonusStorage =
            user.bonusStorage - missed * PENALTY_PER_MISS
       /\ dbUsers'[user.id].checkInStreak = 0
       /\ dbUsers'[user.id].lastCheckIn = user.lastCheckIn + missed * 24
       /\ currentUser' = dbUsers'[user.id]
       /\ dbMedia' = dbMedia
       /\ lastOp'.mediaReset = FALSE]_vars

\* a penalty of two missed days has just driven the bonus below zero while
\* the account keeps its media
C4_Witness ==
  /\ lastOp.op = "reconcile"
  /\ lastOp.alert = "penalty"
  /\ currentUser # NoUser
  /\ currentUser.bonusStorage < 0 - PENALTY_PER_MISS
  /\ OwnedItems(currentUser.id, dbMedia) # {}

\* C5: grace period.  A reconciliation of a user whose lastCheckIn is unset,
\* or lies on today's or yesterday's date, returns the user unchanged,
\* stores nothing, deletes nothing and returns mediaReset = false
C5_GracePeriod ==
  [][\A user \in Candidates :
       (/\ ReconcileRuns(user)
        /\ \/ user.lastCheckIn = 0
           \/ DayOf(now) - DayOf(user.lastCheckIn) \in {0, 1})
       =>
       /\ currentUser' = user
       /\ session' = user
       /\ dbUsers' = dbUsers
       /\ dbMedia' = dbMedia
       /\ lastOp'.mediaReset = FALSE
       /\ lastOp'.alert = "none"]_vars

\* a reconciliation has just run the day after the last check-in
C5_Witness ==
  /\ lastOp.op = "reconcile"
  /\ currentUser # NoUser
  /\ currentUser.lastCheckIn # 0
  /\ DayOf(now) - DayOf(currentUser.lastCheckIn) = 1

\* C6: check-in is idempotent within a calendar day.  A check-in when
\* lastCheckIn lies on today's date reports "already checked in" and leaves
\* the user unchanged in memory, in the session and in the store; and no
\* account has more than one accepted check-in on one date
C6_CheckInOncePerDay ==
  /\ [](\A u \in Users : checkInsToday[u] <= 1)
  /\ [][(/\ CheckIn
         /\ currentUser.lastCheckIn # 0
         /\ DayOf(currentUser.lastCheckIn) = DayOf(now))
        =>
        /\ lastOp'.alert = "already"
        /\ currentUser' = currentUser
        /\ session' = session
        /\ dbUsers' = dbUsers]_vars

\* a second check-in has just been refused on a day with an accepted one
C6_Witness ==
  /\ lastOp.op = "checkin"
  /\ lastOp.alert = "already"
  /\ currentUser # NoUser
  /\ checkInsToday[currentUser.id] = 1

\* C7: a check-in when lastCheckIn is absent or lies on another date stores
\* checkInStreak + 1, bonusStorage + BONUS_PER_CHECKIN and lastCheckIn = now,
\* in memory, in the session and in the store, and leaves the media alone
C7_CheckInAccepted ==
  [][(/\ CheckIn
      /\ \/ currentUser.lastCheckIn = 0
         \/ DayOf(currentUser.lastCheckIn) # DayOf(now))
     =>
     /\ currentUser'.checkInStreak = currentUser.checkInStreak + 1
     /\ currentUser'.bonusStorage = currentUser.bonusStorage + BONUS_PER_CHECKIN
     /\ currentUser'.lastCheckIn = now
     /\ currentUser'.id = currentUser.id
     /\ dbUsers'[currentUser.id] = currentUser'
     /\ session' = currentUser'
     /\ dbMedia' = dbMedia
     /\ media' = media]_vars

\* a check-in has just been accepted on top of an earlier streak
C7_Witness ==
  /\ lastOp.op = "checkin"
  /\ lastOp.alert = "success"
  /\ currentUser.checkInStreak >= 2

\* the item is in the gallery of the signed-in user, in memory and in store
Existing(uid, payload) ==
  /\ currentUser.id = uid
  /\ \E it \in dbMedia : it.userId = uid /\ it.url = payload
  /\ \E k \in 1..Len(media) : media[k].userId = uid /\ media[k].url = payload

\* memory and store agree on the signed-in user and on the user's gallery
Settled(uid) ==
  /\ currentUser.id = uid
  /\ dbUsers[uid] = currentUser
  /\ Range(OwnedBy(uid, media)) = OwnedItems(uid, dbMedia)

\* C8: admission boundary.  A non-duplicate image/video file is persisted
\* if and only if storageUsed + candidateSize <= effectiveQuota
C8_AdmissionBoundary ==
  [][\A b \in 1..MaxBatches :
       Processes(b) =>
         LET e == Last(tasks'[b].log) IN
         (/\ e.file.isMedia
          /\ Settled(Owner(b))
          /\ ~Existing(Owner(b), e.file.payload))
         =>
         /\ (e.status = "success") <=>
              (getStorageUsed(currentUser, media) + UrlLength(e.file.payload)
                 <= totalStorageLimit(currentUser))
         /\ (e.status # "success") => dbMedia' = dbMedia]_vars

\* the entry of the k-th file of a batch in the order the claim describes
Planned(fileList, k) ==
  [file |-> fileList[k],
   lane |-> IF k <= 2 THEN "immediate" ELSE "queued",
   after |-> IF k <= 2 THEN 0
             ELSE IF k = 3 THEN INITIAL_QUEUE_DELAY ELSE SEQUENTIAL_DELAY]

Lane(e) == [file |-> e.file, lane |-> e.lane, after |-> e.after]

\* C9: batch partition and order.  files[0] and files[1] are processed in
\* the immediate lane in that order; files[2..] enter the pending queue in
\* order and are processed in that order, the first after the initial delay
\* and each next one after the inter-file delay, with no delay after the
\* last; no file is processed twice
C9_PartitionAndOrder ==
  /\ [](\A b \in 1..MaxBatches :
          LET t == tasks[b]
              n == Len(t.fileList)
          IN /\ Len(t.log) <= n
             /\ \A k \in 1..Len(t.log) : Lane(t.log[k]) = Planned(t.fileList, k)
             /\ t.phase = "done" => Len(t.log) = n /\ t.timer = 0
             /\ t.phase = "immediate" => Len(t.log) < Min(2, n)
             /\ t.phase = "initialDelay" =>
                  Len(t.log) = 2 /\ n > 2 /\ t.timer = INITIAL_QUEUE_DELAY
             /\ t.phase = "interDelay" =>
                  Len(t.log) \in 3..(n - 1) /\ t.timer = SEQUENTIAL_DELAY)
  /\ [][\A b \in 1..MaxBatches :
          (tasks[b].phase = "immediate" /\ tasks'[b].phase = "initialDelay") =>
             pendingFiles' = SubSeq(tasks[b].fileList, 3, Len(tasks[b].fileList))]_vars

\* a batch of four files has run to completion through both lanes
C9_Witness ==
  \E b \in 1..MaxBatches :
    /\ tasks[b].phase = "done"
    /\ Len(tasks[b].fileList) = 4
    /\ Len(tasks[b].log) = 4

\* C10: duplicate skip.  Processing a file whose payload equals that of an
\* existing item of the current user adds one to the duplicate counter,
\* creates no item, leaves the usage unchanged and moves the batch's
\* progress count on by one
C10_DuplicateSkip ==
  [][\A b \in 1..MaxBatches :
       Processes(b) =>
         LET e == Last(tasks'[b].log) IN
         (e.file.isMedia /\ Existing(Owner(b), e.file.payload)) =>
           /\ duplicateCount' = duplicateCount + 1
           /\ dbMedia' = dbMedia
           /\ media' = media
           /\ processProgress'.current = e.file.idx]_vars

C12_ReconcileAllOrNothing ==
  [][((\E k \in 1..(MaxTotalFiles + 1) : LoginFails("u1", k))
      \/ (\E k \in 1..(MaxTotalFiles + 1) : ReloadFails(k)))
     => (dbUsers' = dbUsers /\ dbMedia' = dbMedia)]_vars

\* C13: a quota rejection is non-fatal and terminal for that file only.  The
\* rejected file is not persisted and is tried once, the progress counter
\* moves on to it, and the batch goes on with its next file, in either lane
C13_RejectionNonFatal ==
  /\ [][\A b \in 1..MaxBatches :
          Processes(b) =>
            LET e == Last(tasks'[b].log)
                n == Len(tasks[b].fileList)
            IN (e.status = "rejected") =>
                 /\ dbMedia' = dbMedia
                 /\ nextId' = nextId
                 /\ \A it \in Range(media') \ Range(media) :
                       it.url # e.file.payload
                 /\ lastOp'.alert = "limit"
                 /\ processProgress'.current = e.file.idx
                 /\ Len(tasks'[b].log) = e.file.idx
                 /\ tasks'[b].phase =
                      (IF e.file.idx = n THEN "done"
                       ELSE IF e.file.idx < Min(2, n) THEN "immediate"
                       ELSE IF e.file.idx = 2 THEN "initialDelay"
                       ELSE "interDelay")]_vars
  /\ [](\A b \in 1..MaxBatches :
          \A k \in 1..Len(tasks[b].log) : tasks[b].log[k].file.idx = k)

\* a batch has run to its end after a rejection in its immediate lane and
\* another in its queued lane
C13_Witness ==
  \E b \in 1..MaxBatches :
    /\ tasks[b].phase = "done"
    /\ Len(tasks[b].log) = 3
    /\ tasks[b].log[1].status = "rejected"
    /\ tasks[b].log[3].status = "rejected"
    /\ tasks[b].log[3].lane = "queued"

\* C14: the queue is abandoned at logout.  While nobody is signed in no file
\* of a pending queue is persisted, so no item is created for the user who
\* signed out
C14_LogoutAbandonsQueue ==
  [][\A b \in 1..MaxBatches :
       (/\ Processes(b)
        /\ Last(tasks'[b].log).lane = "queued"
        /\ currentUser = NoUser)
       =>
       /\ dbMedia' = dbMedia
       /\ media' = media]_vars

\* the payloads of a set of items
UrlsOf(S) == {it.url : it \in S}

\* no two records of S have the same payload
OnePerUrl(S) == \A x, y \in S : x.url = y.url => x = y

\* no two positions of the sequence hold the same payload
DistinctUrls(items) ==
  \A j, k \in 1..Len(items) : items[j].url = items[k].url => j = k

\* C15: Deep Scan.  Once confirmed it deletes every item of the current user
\* but the first of each payload in collection order: afterwards, in the
\* store and in the collection, no two items of the user share a payload and
\* every payload the user had is still there once, and a second scan finds
\* nothing; unconfirmed, or without duplicates, it deletes nothing
C15_DeepScan ==
  [][(\E confirmed \in BOOLEAN : cleanDuplicates(confirmed)) =>
       LET uid == currentUser.id IN
       IF lastOp'.alert = "removed"
       THEN /\ OnePerUrl(OwnedItems(uid, dbMedia'))
            /\ UrlsOf(OwnedItems(uid, dbMedia')) = UrlsOf(OwnedItems(uid, dbMedia))
            /\ DistinctUrls(OwnedBy(uid, media'))
            /\ UrlsOf(Range(OwnedBy(uid, media'))) =
                 UrlsOf(Range(OwnedBy(uid, media)))
            /\ \A it \in Range(OwnedBy(uid, media')) :
                  \A k \in 1..Len(media) :
                    (media[k].userId = uid /\ media[k].url = it.url) =>
                      \E j \in 1..k : media[j] = it
            /\ duplicatesOf(OwnedBy(uid, media')) = {}
       ELSE dbMedia' = dbMedia /\ media' = media]_vars

\* C16: Factory Reset.  Once confirmed it deletes every item of the current
\* user, whatever the usage and the quota, so that the usage is 0, and it
\* leaves bonusStorage, checkInStreak and lastCheckIn alone; unconfirmed it
\* deletes nothing
C16_FactoryReset ==
  [][(\E confirmed \in BOOLEAN : fullCleanStorage(confirmed)) =>
       LET uid == currentUser.id IN
       /\ dbUsers' = dbUsers
       /\ currentUser' = currentUser
       /\ session' = session
       /\ IF lastOp'.alert = "cleared"
          THEN /\ OwnedItems(uid, dbMedia') = {}
               /\ OwnedBy(uid, media') = <<>>
               /\ getStorageUsed(currentUser', media') = 0
          ELSE dbMedia' = dbMedia /\ media' = media]_vars

\* the batch is in its queued lane: waiting for a timer or processing a file
Running(b) == tasks[b].phase \in {"initialDelay", "queued", "interDelay"}

IsSuffix(s, t) == \E k \in 0..Len(t) : s = SubSeq(t, k + 1, Len(t))

\* the step ends the session or the page (logout, reload) or arms the queue
\* of another batch
RunInterrupted ==
  \/ currentUser # NoUser /\ currentUser' = NoUser
  \/ \E b \in 1..MaxBatches :
        tasks[b].phase # "abandoned" /\ tasks'[b].phase = "abandoned"
  \/ \E b \in 1..MaxBatches :
        tasks[b].phase = "immediate" /\ tasks'[b].phase = "initialDelay"

Single(b) ==
  /\ nextBatch = b + 1
  /\ \A o \in 1..MaxBatches :
        o # b => tasks[o].phase \in {"none", "done", "failed", "abandoned"}

\* C18: when a single queued-lane run completes, the pending list is empty,
\* the countdown is 0, the processing flag is false and the progress
\* counter's current equals its total, the number of files selected
C18_QueueCompletion ==
  [][\A b \in 1..MaxBatches :
       (/\ tasks[b].phase = "queued"
        /\ tasks'[b].phase = "done"
        /\ Single(b))
       =>
          /\ pendingFiles' = <<>>
          /\ queueTimeLeft' = 0
          /\ ~isProcessing'
          /\ processProgress'.current = processProgress'.total
          /\ processProgress'.total = Len(tasks[b].fileList)]_vars

\* the queued lane of a batch of four, the only batch at work, has just
\* completed with the countdown run down
C18_Witness ==
  \E b \in 1..MaxBatches :
    /\ tasks[b].phase = "done"
    /\ Len(tasks[b].log) = 4
    /\ Last(tasks[b].log).lane = "queued"
    /\ lastOp.op = "process"
    /\ nextBatch = b + 1
    /\ processProgress = [current |-> 4, total |-> 4]
    /\ queueTimeLeft = 0

\* C19: no rollback on storage failure.  When persisting a file fails, the
\* items the batch has persisted before stay in the store, the batch
\* processes no further file, and the in-memory collection holds every item
\* the batch had persisted before the failure
C19_NoRollback ==
  /\ [][\A b \in 1..MaxBatches :
          (ImmediateStepFails(b) \/ QueuedFinishFails(b)) =>
             /\ dbMedia' = dbMedia
             /\ tasks'[b].phase = "failed"
             /\ \A k \in 1..Len(tasks[b].log) :
                   tasks[b].log[k].status = "success" =>
                     \E it \in dbMedia' :
                        /\ it.url = tasks[b].log[k].file.payload
                        /\ \E m \in 1..Len(media') : media'[m] = it]_vars
  /\ [][\A b \in 1..MaxBatches :
          tasks[b].phase = "failed" => tasks'[b].log = tasks[b].log]_vars

\* C20: the streak counts consecutive days and every fully missed day costs
\* one penalty.  A check-in accepted two or more calendar days after the
\* user's last check-in leaves checkInStreak = 1 and a bonus reduced by
\* PENALTY_PER_MISS for every day missed in between (a wipe starts the
\* count anew), whether or not a reconciliation ran in between
C20_StreakAfterMiss ==
  [][(CheckIn /\ lastOp'.alert = "success") =>
       LET e   == epoch[currentUser.id]
           gap == DayOf(now) - DayOf(e.anchor)
       IN (e.anchor # 0 /\ gap >= 2) =>
            /\ currentUser'.checkInStreak = 1
            /\ currentUser'.bonusStorage =
                 e.bonus - (gap - 1) * PENALTY_PER_MISS + BONUS_PER_CHECKIN]_vars

\* C21: upload never creates a duplicate payload.  When no two stored items
\* of the batch's user share a payload, processing a file of the batch
\* leaves it so: a payload that is there already, from before the batch or
\* from an earlier file of it, is counted as a duplicate and not stored
C21_NoDuplicatePayload ==
  [][\A b \in 1..MaxBatches :
       (Processes(b) /\ OnePerUrl(OwnedItems(Owner(b), dbMedia))) =>
          OnePerUrl(OwnedItems(Owner(b), dbMedia'))]_vars

\* the outcomes of the immediate lane recorded in a task's log
ImmediateEntries(t) == SelectSeq(t.log, LAMBDA e : e.lane = "immediate")

\* C22: lane ordering.  The initial delay of a batch is armed in the step
\* that ends its immediate lane, with every immediate file processed and the
\* immediate results appended to the media collection in that step; a
\* queued file is processed only after that, so while the queue of a batch
\* waits or runs the items of its immediate lane are in the collection
C22_LaneOrdering ==
  /\ [][\A b \in 1..MaxBatches :
          (tasks'[b].phase = "initialDelay" /\ tasks[b].phase # "initialDelay") =>
             LET t == tasks'[b]
                 immediateFiles == immediateFilesOf(t.fileList)
             IN /\ tasks[b].phase = "immediate"
                /\ t.i = Len(immediateFiles)
                /\ Len(ImmediateEntries(t)) = Len(immediateFiles)
                /\ Len(t.log) = Len(immediateFiles)
                /\ Len(t.immediateResults) =
                     Len(SelectSeq(t.log, LAMBDA e : e.status = "success"))
                /\ media' = media \o t.immediateResults
                /\ t.timer = INITIAL_QUEUE_DELAY]_vars
  /\ [][\A b \in 1..MaxBatches :
          (Processes(b) /\ Last(tasks'[b].log).lane = "queued") =>
             /\ tasks[b].phase = "queued"
             /\ tasks[b].i = Len(immediateFilesOf(tasks[b].fileList))
             /\ Len(ImmediateEntries(tasks[b])) =
                  Len(immediateFilesOf(tasks[b].fileList))
             /\ Range(tasks[b].immediateResults) \subseteq Range(media)]_vars
  /\ [](\A b \in 1..MaxBatches :
          tasks[b].phase \in {"initialDelay", "queued", "interDelay"} =>
             /\ tasks[b].i = Len(immediateFilesOf(tasks[b].fileList))
             /\ Range(tasks[b].immediateResults) \subseteq Range(media))

\* the first queued file of a batch is being processed after both immediate
\* files were stored and published
C22_Witness ==
  \E b \in 1..MaxBatches :
    /\ tasks[b].phase = "queued"
    /\ tasks[b].j = 0
    /\ Len(tasks[b].immediateResults) = 2
    /\ Range(tasks[b].immediateResults) \subseteq Range(media)

\* C23: post-condition of a reconciliation that took the penalty path or
\* the wipe path.  What remains stored for the user is at most
\* BASE_QUOTA + bonusStorage of the record that is returned and saved, and
\* that bonus is at least -BASE_QUOTA, so the effective quota is not negative
C23_ReconcilePostCondition ==
  [][\A user \in Candidates :
       (ReconcileRuns(user) /\ lastOp'.alert \in {"wipe", "penalty"}) =>
          /\ dbUsers'[user.id] = currentUser'
          /\ SumLen(OwnedBy(user.id, getAllMedia(dbMedia'))) <=
               BASE_STORAGE_BYTES + currentUser'.bonusStorage
          /\ currentUser'.bonusStorage >= 0 - BASE_STORAGE_BYTES
          /\ BASE_STORAGE_BYTES + currentUser'.bonusStorage >= 0]_vars

\* a reconciliation has wiped an account for which nothing was ever stored:
\* the penalised quota would have been negative
C23_Witness ==
  /\ lastOp.op = "reconcile"
  /\ lastOp.alert = "wipe"
  /\ nextId = 1
  /\ currentUser.bonusStorage = 0

\* the copies of the user record: stored, in memory and in the session
Records == {dbUsers[u] : u \in Users} \cup {currentUser, session}

C25_ProgressWithinTotal ==
  /\ 0 <= processProgress.current
  /\ processProgress.current <= processProgress.total

\* C26: no lost or repeated files under overlapping batches.  With the page
\* open and no storage failure, every batch processes its files one by one
\* in the order selected, none twice, and every batch that was selected ends
\* with each of its files processed, also when another batch was selected
\* while its queue was pending and overwrote the pending list and the
\* progress counter
C26_OverlapExactlyOnce ==
  /\ [](\A b \in 1..MaxBatches :
          /\ Len(tasks[b].log) <= Len(tasks[b].fileList)
          /\ \A k \in 1..Len(tasks[b].log) :
                tasks[b].log[k].file = tasks[b].fileList[k]
          /\ tasks[b].phase \in {"none", "immediate", "initialDelay", "queued",
                                 "interDelay", "done"}
          /\ tasks[b].phase = "done" =>
                Len(tasks[b].log) = Len(tasks[b].fileList))
  /\ [][\A b \in 1..MaxBatches :
          \/ tasks'[b].log = tasks[b].log
          \/ /\ Processes(b)
             /\ \A o \in 1..MaxBatches : o # b => tasks'[o] = tasks[o]]_vars
  /\ \A b \in 1..MaxBatches :
        (tasks[b].phase # "none") ~>
           (tasks[b].phase = "done" /\ Len(tasks[b].log) = Len(tasks[b].fileList))

\* the first batch is processing its queued file while the second batch,
\* selected during the first one's delay, has put its own file on the
\* pending list and its own total on the progress counter
C26_Witness ==
  /\ tasks[1].phase = "queued"
  /\ tasks[2].phase = "initialDelay"
  /\ pendingFiles = queuedFilesOf(tasks[2].fileList)
  /\ processProgress.total = Len(tasks[2].fileList)

\* C27: the processing flag does not stay stuck.  Whenever isProcessing is
\* true it becomes false in the end, and whenever the pending list holds
\* files it becomes empty in the end, also when a saveMediaItem call of the
\* batch rejects
C27_FlagReleased ==
  /\ isProcessing ~> ~isProcessing
  /\ (pendingFiles # <<>>) ~> (pendingFiles = <<>>)

\* a penalty-path reconciliation of the signed-in user has run today and no
\* check-in was accepted since
PenalisedToday ==
  /\ epoch[currentUser.id].penalties >= 1
  /\ DayOf(dbUsers[currentUser.id].lastCheckIn) = DayOf(now) - 1

\* a wipe-path reconciliation of the signed-in user has run today
WipedToday ==
  /\ epoch[currentUser.id].wiped
  /\ DayOf(epoch[currentUser.id].anchor) = DayOf(now)

\* C28: a check-in on the day of a penalty-path reconciliation is accepted
\* and leaves checkInStreak = 1 and bonusStorage = the penalised bonus +
\* BONUS_PER_CHECKIN; a check-in on the day of a wipe-path reconciliation is
\* refused as already checked in and leaves checkInStreak = 0 and
\* bonusStorage = 0
C28_CheckInAfterReconcile ==
  /\ [][(CheckIn /\ PenalisedToday) =>
          LET e         == epoch[currentUser.id]
              penalised == e.bonus - (DayOf(now) - DayOf(e.anchor) - 1)
                                       * PENALTY_PER_MISS
          IN /\ lastOp'.alert = "success"
             /\ currentUser.bonusStorage = penalised
             /\ currentUser'.checkInStreak = 1
             /\ currentUser'.bonusStorage = penalised + BONUS_PER_CHECKIN
             /\ dbUsers'[currentUser.id] = currentUser'
             /\ session' = currentUser']_vars
  /\ [][(CheckIn /\ WipedToday) =>
          /\ lastOp'.alert = "already"
          /\ currentUser' = currentUser
          /\ currentUser'.checkInStreak = 0
          /\ currentUser'.bonusStorage = 0
          /\ dbUsers' = dbUsers
          /\ dbUsers[currentUser.id] = currentUser
          /\ session' = session]_vars

\* a check-in has just been accepted at the very time at which a
\* penalty-path reconciliation had run
C28_Witness ==
  /\ lastOp.op = "checkin"
  /\ lastOp.alert = "success"
  /\ epoch[currentUser.id].penalisedNow
  /\ epoch[currentUser.id].anchor = now
  /\ currentUser.checkInStreak = 1
  /\ currentUser.bonusStorage < 0

\* a check-in has just been refused on the day of a wipe
C28_WitnessWipe ==
  /\ lastOp.op = "checkin"
  /\ lastOp.alert = "already"
  /\ currentUser # NoUser
  /\ WipedToday

\* the user on whose behalf the step is taken: the owner of the batch that
\* processes a file, else the signed-in user, else the user who signs in
ActingUser ==
  IF \E b \in 1..MaxBatches : Processes(b)
  THEN Owner(CHOOSE b \in 1..MaxBatches : Processes(b))
  ELSE IF currentUser # NoUser THEN currentUser.id
  ELSE currentUser'.id

\* the step leaves the stored items and the record of user uid as they are,
\* and the items of uid in memory either as they are or as they are stored
Frame(uid) ==
  /\ OwnedItems(uid, dbMedia') = OwnedItems(uid, dbMedia)
  /\ dbUsers'[uid] = dbUsers[uid]
  /\ SumLen(OwnedBy(uid, getAllMedia(dbMedia'))) = PersistedUsed(uid)
  /\ \/ OwnedBy(uid, media') = OwnedBy(uid, media)
     \/ OwnedBy(uid, media') = OwnedBy(uid, getAllMedia(dbMedia))

\* the same items with those of other users than uid left out
Alone(uid, items) == OwnedBy(uid, items)

\* C29: ownership frame.  A reconciliation, Factory Reset, Deep Scan or
\* upload of one user never deletes or modifies a stored item of another
\* user and never changes another user's record or stored usage; and what
\* it decides (wipe or penalty, duplicate or not, within the limit or not)
\* is what it would decide if the other users' items were not there
C29_OwnershipFrame ==
  /\ [][\A uid \in Users : uid # ActingUser => Frame(uid)]_vars
  /\ [](\A uid \in Users :
          dbUsers[uid] # NoUser =>
            LET savedMedia == getAllMedia(dbMedia) IN
            /\ applyDailyLogic(dbUsers[uid], savedMedia) =
                 applyDailyLogic(dbUsers[uid], Alone(uid, savedMedia))
            /\ getStorageUsed(dbUsers[uid], media) =
                 getStorageUsed(dbUsers[uid], Alone(uid, media))
            /\ duplicatesOf(OwnedBy(uid, media)) \subseteq
                 {it.id : it \in OwnedItems(uid, Range(media))})
  /\ [](\A b \in 1..MaxBatches :
          tasks[b].phase \in {"immediate", "queued"} =>
            LET t     == tasks[b]
                alone == [t EXCEPT !.media = Alone(t.user.id, t.media)]
            IN \A k \in 1..Len(t.fileList) :
                 processStatus(t, t.fileList[k]) =
                   processStatus(alone, t.fileList[k]))

\* one user's account has just been wiped by a reconciliation while the
\* other user's items are in the store and in memory
C29_Witness ==
  /\ lastOp.op = "reconcile"
  /\ lastOp.alert = "wipe"
  /\ \E uid \in Users :
        /\ uid # currentUser.id
        /\ OwnedItems(uid, dbMedia) # {}
        /\ OwnedBy(uid, media) # <<>>

\* Deep Scan has just removed a duplicate of the signed-in user while the
\* other user keeps an item with the same payload
C29_WitnessScan ==
  /\ lastOp.op = "dedupe"
  /\ lastOp.alert = "removed"
  /\ \E x \in dbMedia, y \in dbMedia :
        /\ x.userId = currentUser.id
        /\ y.userId # currentUser.id
        /\ x.url = y.url

\* C30: a check-in whose saveUserToDB rejects leaves the user in memory, the
\* session copy and the stored record as they were, with their
\* bonusStorage, checkInStreak and lastCheckIn, and leaves everything else
\* as it was too; a check-in that follows on the same day is accepted
C30_CheckInSaveFails ==
  /\ [][lastOp'.op = "checkinFailed" =>
          /\ currentUser' = currentUser
          /\ session' = session
          /\ dbUsers' = dbUsers
          /\ ~AlreadyCheckedIn(currentUser')
          /\ UNCHANGED <<now, dbMedia, media, isProcessing, processProgress,
                         duplicateCount, pendingFiles, queueTimeLeft, tasks,
                         nextBatch, nextId, checkInsToday, epoch>>]_vars
  /\ [][(CheckIn /\ lastOp.op = "checkinFailed") =>
          /\ lastOp'.alert = "success"
          /\ currentUser' = CheckedIn(currentUser)
          /\ dbUsers'[currentUser.id] = currentUser'
          /\ session' = currentUser']_vars

\* the save of a check-in has just been rejected for a user who has a
\* streak and a bonus from earlier check-ins
C30_Witness ==
  /\ lastOp.op = "checkinFailed"
  /\ currentUser.checkInStreak >= 1
  /\ currentUser.bonusStorage # 0
  /\ session = currentUser
  /\ dbUsers[currentUser.id] = currentUser

====
